---- MODULE Spec2Model ----
(***************************************************************************)
(* Staged-import pipeline of backend_soul: the import-stage streaming      *)
(* session (upload_excel / handle_excel_upload_ws / process_excel_async)   *)
(* and the confirmation streaming session (confirm_import_ws /             *)
(* confirm_import_to_service) over the tables data_imported, data_errors   *)
(* and service.  Sessions are coroutines of one event loop: a session      *)
(* runs from one await to the next without interruption (variable cpu).    *)
(* The connection pool is created with autocommit=True, so every statement *)
(* is its own committed unit and commit()/rollback() change nothing.       *)
(***************************************************************************)
EXTENDS Integers, Sequences, FiniteSets, TLC

\* ------------------------------------------------------------------ bounds
MaxFiles == 2      \* files of one upload (SpecImport)
MaxSheets == 2     \* sheets of one upload, all workbooks together (SpecImport)
MaxRows == 2       \* data rows of one upload, all sheets together (SpecImport)
MaxWork == 5       \* files, sheets and rows of one upload, added up (SpecImport)
MaxStaged == 3     \* staged rows present when a confirmation starts (SpecConfirm)
MaxRequests == 2   \* requests answered by the HTTP endpoints (SpecStaging)
StagingRows == 3   \* staged rows the HTTP endpoints start from (SpecStaging)

\* ------------------------------------------------------- program constants
MaxUploadFiles == 5
HeaderOffset == 2
pool_size == 5

Sessions == {1, 2}
Principals == {1, 2}
SheetNames == {1, 2}
NoSession == 0

\* ---------------------------------------------------------------- strings
\* A cell text is a sequence of characters; " " is the only whitespace used.
RECURSIVE LStrip(_)
LStrip(s) == IF s = << >> THEN << >>
             ELSE IF Head(s) = " " THEN LStrip(Tail(s)) ELSE s

RECURSIVE RStrip(_)
RStrip(s) == IF s = << >> THEN << >>
             ELSE IF s[Len(s)] = " " THEN RStrip(SubSeq(s, 1, Len(s) - 1)) ELSE s

Strip(s) == RStrip(LStrip(s))

\* ------------------------------------------------------------- raw cells
\* A cell after fillna(""): a number, or a text (the empty text for a blank).
Num(n) == [t |-> "num", v |-> n, s |-> << >>]
Txt(s) == [t |-> "txt", v |-> 0, s |-> s]

Digits == <<"0", "1", "2", "3", "4", "5", "6", "7", "8", "9">>

IsDigitChar(ch) == \E d \in 1..Len(Digits) : Digits[d] = ch

DigitVal(ch) == (CHOOSE d \in 1..Len(Digits) : Digits[d] = ch) - 1

\* str.isdigit()
IsDigit(s) == s # << >> /\ \A i \in 1..Len(s) : IsDigitChar(s[i])

RECURSIVE Decimal(_)
Decimal(s) == IF s = << >> THEN 0
              ELSE 10 * Decimal(SubSeq(s, 1, Len(s) - 1)) + DigitVal(s[Len(s)])

RECURSIVE DecimalStr(_)
DecimalStr(n) == IF n < 10 THEN <<Digits[n + 1]>>
                 ELSE DecimalStr(n \div 10) \o <<Digits[(n % 10) + 1]>>

\* str(x)
CellStr(c) == IF c.t = "txt" THEN c.s
              ELSE IF c.v < 0 THEN <<"-">> \o DecimalStr(-c.v)
              ELSE DecimalStr(c.v)

Unsigned(s) == IF s # << >> /\ Head(s) \in {"-", "+"} THEN Tail(s) ELSE s

\* int(x): a number converts; a text converts when, stripped, it is an
\* optional sign and digits; anything else raises ValueError.
IntOk(c) == c.t = "num" \/ IsDigit(Unsigned(Strip(c.s)))
IntVal(c) == IF c.t = "num" THEN c.v
             ELSE IF Head(Strip(c.s)) = "-" THEN -Decimal(Unsigned(Strip(c.s)))
             ELSE Decimal(Unsigned(Strip(c.s)))

\* float(x), on the cells used here (no fraction, no exponent)
FloatOk(c) == IntOk(c)
FloatVal(c) == IntVal(c)

\* bool(int(x) if str(x).isdigit() else x)
BoolVal(c) == IF IsDigit(CellStr(c)) THEN IntVal(c) # 0
              ELSE IF c.t = "num" THEN c.v # 0 ELSE c.s # << >>

RawRow(n, du, pr) ==
    [name |-> Txt(n), description |-> Txt(<<"d", " ">>), duration_minutes |-> du,
     price |-> pr, state |-> Num(1)]

\* the rows of the uploaded sheets: a valid row, a blank name, and rows with
\* a bad duration or price
RawRows ==
    { RawRow(<<" ", "a">>, Txt(<<"3", "0">>), Num(0)),
      RawRow(<<" ">>, Num(30), Num(0)),
      RawRow(<<"a">>, Num(0), Num(0)),
      RawRow(<<"a">>, Txt(<<"-", "5">>), Num(0)),
      RawRow(<<"a">>, Txt(<<"x">>), Num(0)),
      RawRow(<<"a">>, Num(30), Num(-1)) }

NoRow == [name |-> Txt(<< >>), description |-> Txt(<< >>),
          duration_minutes |-> Num(0), price |-> Num(0), state |-> Num(0)]

\* ------------------------------------------------------------ column check
EXPECTED_COLUMNS == {"name", "description", "duration_minutes", "price", "state"}

\* the difference taken the wrong way round
MissingColumnsReversed(columns) == columns \ EXPECTED_COLUMNS

\* missing_cols = EXPECTED_COLUMNS - set(df.columns)
MissingColumns(columns) == EXPECTED_COLUMNS \ columns

\* the column sets of the uploaded sheets: complete with a spare column, one
\* column short, only the name
ColumnSets == {EXPECTED_COLUMNS \cup {"notes"}, EXPECTED_COLUMNS \ {"price"}, {"name", "notes"}}

\* ---------------------------------------------------------- row validator
\* process_excel_async, body of the row loop up to the INSERT: the outcome of
\* one raw row.  kind "empty" is the name check (no progress event follows),
\* "invalid" a ValueError raised by int(), float() or the range checks.
StrOrNone(s) == IF Strip(s) = << >> THEN <<"None">> ELSE Strip(s)

\* a validator without the range check of the duration
RowOutcomeAnyDuration(row) ==
    LET name == Strip(CellStr(row.name)) IN
    IF name = << >> THEN [kind |-> "empty", msg |-> "Nombre vacio"]
    ELSE IF ~IntOk(row.duration_minutes) THEN [kind |-> "invalid", msg |-> "invalid literal for int()"]
    ELSE IF ~FloatOk(row.price) THEN [kind |-> "invalid", msg |-> "could not convert string to float"]
    ELSE IF FloatVal(row.price) < 0 THEN [kind |-> "invalid", msg |-> "Precio negativo"]
    ELSE [kind |-> "valid", msg |-> ""]

\* a range check that lets a duration of 0 through
RowOutcomeZeroDuration(row) ==
    LET name == Strip(CellStr(row.name)) IN
    IF name = << >> THEN [kind |-> "empty", msg |-> "Nombre vacio"]
    ELSE IF ~IntOk(row.duration_minutes) THEN [kind |-> "invalid", msg |-> "invalid literal for int()"]
    ELSE IF ~FloatOk(row.price) THEN [kind |-> "invalid", msg |-> "could not convert string to float"]
    ELSE IF IntVal(row.duration_minutes) < 0 THEN [kind |-> "invalid", msg |-> "Duracion invalida"]
    ELSE IF FloatVal(row.price) < 0 THEN [kind |-> "invalid", msg |-> "Precio negativo"]
    ELSE [kind |-> "valid", msg |-> ""]

RowOutcome(row) ==
    LET name == Strip(CellStr(row.name)) IN
    IF name = << >> THEN [kind |-> "empty", msg |-> "Nombre vacio"]
    ELSE IF ~IntOk(row.duration_minutes) THEN [kind |-> "invalid", msg |-> "invalid literal for int()"]
    ELSE IF ~FloatOk(row.price) THEN [kind |-> "invalid", msg |-> "could not convert string to float"]
    ELSE IF IntVal(row.duration_minutes) <= 0 THEN [kind |-> "invalid", msg |-> "Duracion invalida"]
    ELSE IF FloatVal(row.price) < 0 THEN [kind |-> "invalid", msg |-> "Precio negativo"]
    ELSE [kind |-> "valid", msg |-> ""]

Normalized(row) ==
    [name |-> Strip(CellStr(row.name)),
     description |-> StrOrNone(CellStr(row.description)),
     duration_minutes |-> IntVal(row.duration_minutes),
     price |-> FloatVal(row.price),
     state |-> BoolVal(row.state)]

\* round(x / total * 100, 2), in hundredths of a percent
Percent(x, total) == (2 * x * 10000 + total) \div (2 * total)

\* ------------------------------------------------------------------ state
VARIABLES
    data_imported,   \* table data_imported (StagedRow)
    data_errors,     \* table data_errors (StagingError)
    service,         \* table service (CatalogService)
    next_id,         \* auto-increment counters of the three tables
    ws,              \* per streaming session: the coroutine's locals and position
    sent,            \* per session: messages delivered on the websocket, in order
    tasks,           \* per session: progress sends scheduled with create_task
    cpu,             \* the session running between two awaits, or NoSession
    reply            \* the response to the latest request on the HTTP endpoints

vars == <<data_imported, data_errors, service, next_id, ws, sent, tasks, cpu, reply>>

EmptyResults == [valid_sheets |-> << >>, invalid_sheets |-> << >>, total_rows |-> 0]
EmptySummary == [total_files |-> 0, total_rows |-> 0]
EmptyStats == [total_processed |-> 0, inserted |-> 0, duplicated |-> 0, failed |-> 0,
               errors |-> << >>]

NewSession ==
    [kind |-> "none", pc |-> "idle", open |-> TRUE, user |-> 0, conn |-> FALSE,
     nfiles |-> 0, f |-> 0, late |-> FALSE,
     sheets_read |-> 0, nsheets |-> 0, sheet |-> 0, columns |-> {},
     from_import |-> 0, from_error |-> 0, total_rows |-> 0, file_rows |-> 0,
     idx |-> 0, row |-> NoRow,
     results |-> EmptyResults, summary |-> EmptySummary,
     selected |-> {}, records |-> << >>, fetched |-> 0, stats |-> EmptyStats,
     mark_import |-> 0, mark_error |-> 0]

\* build_response(success, message, data, code) of the HTTP endpoints; seq
\* numbers the requests answered so far, req_id and req_body are the path
\* parameter and the body of the request answered
NoReply == [seq |-> 0, op |-> "none", user |-> 0, req_id |-> 0, req_body |-> << >>,
            success |-> FALSE, code |-> 0, message |-> "", id_import |-> 0,
            deleted_rows |-> 0, deleted_errors |-> 0,
            sheets |-> {}, total_sheets |-> 0, total_rows |-> 0, total_errors |-> 0,
            has_invalid_sheets |-> FALSE]

\* ---------------------------------------------------------------- messages
Msg == [event |-> "", success |-> FALSE, code |-> 0, filename |-> 0, progress |-> 0,
        current |-> 0, total |-> 0, status |-> "", name |-> << >>,
        stats |-> EmptyStats, summary |-> EmptySummary,
        valid_sheets |-> << >>, invalid_sheets |-> << >>]

Envelope(ok, code) == [Msg EXCEPT !.event = "envelope", !.success = ok, !.code = code]

Send(s, m) == [sent EXCEPT ![s] = Append(@, m)]

\* ------------------------------------------------------------- store access
StagedOf(u) == {r \in data_imported : r.user = u}
ErrorsOf(u) == {e \in data_errors : e.user = u}

\* a clearing without the WHERE on user_id
ClearImportedEveryone(u) == {}

\* a clearing that leaves the staged rows in place
ClearImportedSkipped(u) == data_imported

\* DELETE FROM data_imported WHERE user_id = u
ClearImported(u) == {r \in data_imported : r.user # u}

\* a clearing that leaves the errors in place
ClearErrorsSkipped(u) == data_errors

\* DELETE FROM data_errors WHERE user_id = u
ClearErrors(u) == {e \in data_errors : e.user # u}

\* INSERT INTO data_errors (sheet_name, row_num, error_message, user_id)
ErrorRow(sheet, row_num, msg, u) ==
    [id |-> next_id.error, sheet |-> sheet, row_num |-> row_num, msg |-> msg, user |-> u]

\* INSERT INTO data_imported (...)
ImportedRow(sheet, row, u) ==
    [id |-> next_id.imported, sheet |-> sheet, user |-> u] @@ Normalized(row)

\* an insert that reads the staged row again instead of the fetched record
ServiceRowLive(rec) ==
    LET live == {r \in data_imported : r.id = rec.id}
        cur == IF live = {} THEN rec ELSE CHOOSE r \in live : TRUE
    IN  [id |-> next_id.service, name |-> cur.name, description |-> cur.description,
         duration_minutes |-> cur.duration_minutes, price |-> cur.price, state |-> cur.state]

\* INSERT INTO service (name, description, duration_minutes, price, state)
ServiceRow(rec) ==
    [id |-> next_id.service, name |-> rec.name, description |-> rec.description,
     duration_minutes |-> rec.duration_minutes, price |-> rec.price, state |-> rec.state]

\* a confirmation without the duplicate check
ExistingUnchecked(name) == FALSE

\* SELECT id_service FROM service WHERE name = %s ... fetchone()
Existing(name) == \E sv \in service : sv.name = name

\* a fetch ordered by staging id alone
BeforeById(a, b) == a.id < b.id

\* ORDER BY sheet_name, id_import
Before(a, b) == a.sheet < b.sheet \/ (a.sheet = b.sheet /\ a.id < b.id)

RECURSIVE Ordered(_)
Ordered(S) ==
    IF S = {} THEN << >>
    ELSE LET first == CHOOSE a \in S : \A b \in S \ {a} : Before(a, b)
         IN <<first>> \o Ordered(S \ {first})

\* a fetch that ignores the requested sheets
FetchRecordsAnySheet(u, sheets) == Ordered({r \in data_imported : r.user = u})

\* SELECT * FROM data_imported WHERE user_id = %s AND sheet_name IN (...)
FetchRecords(u, sheets) == Ordered({r \in data_imported : r.user = u /\ r.sheet \in sheets})

\* ------------------------------------------------------------------- Init
\* The catalog holds services with unique names.
InitialCatalogs ==
    { {},
      { [id |-> 1, name |-> <<"a">>, description |-> <<"None">>,
         duration_minutes |-> 30, price |-> 0, state |-> TRUE] } }

\* Staging rows left by earlier import sessions: row i of the sequence has
\* id i; every row satisfies the validator (it was staged by ImportRow).
StagedKinds == [sheet : SheetNames, name : {<<"a">>, <<"b">>}, user : Principals]

StagedTable(q) ==
    { [id |-> i, sheet |-> q[i].sheet, user |-> q[i].user, name |-> q[i].name,
       description |-> <<"d">>, duration_minutes |-> 30 + i, price |-> 0, state |-> TRUE] :
      i \in 1..Len(q) }

\* one sheet-level error per principal left by an earlier import session
ErrorTable(users) ==
    { [id |-> u, sheet |-> 2, row_num |-> 0, msg |-> "Estructura invalida", user |-> u] :
      u \in users }

InitWith(staged_seqs, error_users) ==
    /\ \E q \in staged_seqs :
         /\ data_imported = StagedTable(q)
         /\ next_id = [imported |-> Len(q) + 1, error |-> 3, service |-> 2]
    /\ \E users \in error_users : data_errors = ErrorTable(users)
    /\ service \in InitialCatalogs
    /\ ws = [s \in Sessions |-> NewSession]
    /\ sent = [s \in Sessions |-> << >>]
    /\ tasks = [s \in Sessions |-> << >>]
    /\ cpu = NoSession
    /\ reply = NoReply

SeqsUpTo(S, n) == UNION { [1..k -> S] : k \in 0..n }

\* verify_admin_token_ws: the principal, or the failure mode
AuthOutcomes == {"ok", "invalid_token", "unknown_user", "not_admin"}

\* the coroutine of session s may run: the loop is free, or s holds it
Runs(s) == cpu \in {NoSession, s}

\* connections of the pool held by the streaming sessions (get_conn)
Leased == Cardinality({s \in DOMAIN ws : ws[s].conn})

\* pool.get_connection(): a connection is handed out while one is left
PoolHasFree == Leased < pool_size

\* a row loop that stops one row short
NextRowPcShort(w) == IF w.idx + 2 < w.total_rows THEN "row" ELSE "sheet"

NextRowPc(w) == IF w.idx + 1 < w.total_rows THEN "row" ELSE "sheet"

\* ------------------------------------------------- import-stage session
\* a check of the files that has no upper limit
FilesRejectedEmptyOnly(n) == n = 0

\* upload_excel: not files, or len(files) > 5
FilesRejected(n) == n = 0 \/ n > MaxUploadFiles

\* upload_excel up to the call of handle_excel_upload_ws, and the
\* clear_temp_tables at its start.
ImportOpen(s, up) ==
    /\ ws[s].pc = "idle"
    /\ cpu = NoSession
    /\ \E auth \in AuthOutcomes, u \in up.principals,
          n \in (0..(IF up.files < MaxUploadFiles THEN up.files ELSE MaxUploadFiles))
                \cup {MaxUploadFiles + 1} :
         IF auth # "ok" \/ FilesRejected(n)
         THEN /\ sent' = Send(s, Envelope(FALSE, IF auth # "ok" THEN 401 ELSE 400))
              /\ ws' = [ws EXCEPT ![s].kind = "import", ![s].pc = "done", ![s].open = FALSE]
              /\ UNCHANGED <<data_imported, data_errors, next_id, cpu>>
         ELSE /\ PoolHasFree
              /\ data_imported' = ClearImported(u)
              /\ data_errors' = ClearErrors(u)
              /\ ws' = [ws EXCEPT ![s].kind = "import", ![s].pc = "file", ![s].user = u,
                                  ![s].nfiles = n, ![s].f = 1,
                                  ![s].mark_import = next_id.imported,
                                  ![s].mark_error = next_id.error]
              /\ cpu' = s
              /\ UNCHANGED <<sent, next_id>>
    /\ UNCHANGED <<service, tasks>>
    /\ UNCHANGED reply

\* handle_excel_upload_ws: head of the loop over the files (base64 decode,
\* start_file), and the terminal message of upload_excel after the last file.
ImportFile(s) ==
    /\ ws[s].pc = "file"
    /\ Runs(s)
    /\ IF ws[s].f > ws[s].nfiles
       THEN /\ sent' = Send(s, [Envelope(TRUE, 200) EXCEPT !.summary = ws[s].summary])
            /\ ws' = [ws EXCEPT ![s].pc = "done", ![s].open = FALSE]
       ELSE \E decodable \in BOOLEAN :
              IF decodable
              THEN /\ sent' = Send(s, [Msg EXCEPT !.event = "start_file", !.filename = ws[s].f])
                   /\ ws' = [ws EXCEPT ![s].pc = "parse"]
              ELSE /\ sent' = Send(s, Envelope(FALSE, 400))
                   /\ ws' = [ws EXCEPT ![s].f = @ + 1]
    /\ cpu' = NoSession
    /\ UNCHANGED <<data_imported, data_errors, service, next_id, tasks>>
    /\ UNCHANGED reply

\* the sheets of the current file read so far
UsedSheets(w) ==
    {w.results.valid_sheets[i] : i \in 1..Len(w.results.valid_sheets)}
    \cup {w.results.invalid_sheets[i] : i \in 1..Len(w.results.invalid_sheets)}

\* rows of the upload counted so far (summary and the current file)
RowsSoFar(w) == w.summary.total_rows + w.results.total_rows

\* size of the upload read so far: its files, sheets and rows
Work(w) == w.nfiles + w.sheets_read + RowsSoFar(w)

\* process_excel_async: pd.read_excel.  A parse failure raises ValueError,
\* which upload_excel turns into the failure message and the close.
ImportParse(s, up) ==
    /\ ws[s].pc = "parse"
    /\ cpu = NoSession
    /\ \E parsed \in BOOLEAN :
         IF parsed
         THEN /\ ws[s].sheets_read < up.sheets
              /\ Work(ws[s]) < up.work
              /\ PoolHasFree
              /\ ws' = [ws EXCEPT ![s].pc = "sheet", ![s].conn = TRUE, ![s].nsheets = 0,
                                  ![s].results = EmptyResults]
              /\ cpu' = s
              /\ UNCHANGED sent
         ELSE /\ sent' = Send(s, Envelope(FALSE, 500))
              /\ ws' = [ws EXCEPT ![s].pc = "done", ![s].open = FALSE]
              /\ UNCHANGED cpu
    /\ UNCHANGED <<data_imported, data_errors, service, next_id, tasks>>
    /\ UNCHANGED reply

\* process_excel_async: head of the loop over the sheets (column check), and
\* after the last sheet the return to handle_excel_upload_ws (preview_ready).
ImportSheet(s, up) ==
    /\ ws[s].pc = "sheet"
    /\ cpu = s
    /\ \/ /\ ws[s].nsheets >= 1
          /\ sent' = Send(s, [Msg EXCEPT !.event = "preview_ready", !.filename = ws[s].f,
                                         !.valid_sheets = ws[s].results.valid_sheets,
                                         !.invalid_sheets = ws[s].results.invalid_sheets])
          /\ ws' = [ws EXCEPT ![s].pc = "file", ![s].conn = FALSE, ![s].f = @ + 1,
                              ![s].summary = [total_files |-> @.total_files + 1,
                                              total_rows |-> @.total_rows + ws[s].results.total_rows],
                              ![s].nsheets = 0, ![s].sheet = 0, ![s].total_rows = 0,
                              ![s].file_rows = 0,
                              ![s].columns = {}, ![s].from_import = 0, ![s].from_error = 0,
                              ![s].idx = 0, ![s].row = NoRow, ![s].results = EmptyResults]
          /\ cpu' = NoSession
          /\ UNCHANGED <<data_errors, next_id>>
       \/ \E sheet \in up.names \ UsedSheets(ws[s]), columns \in up.columns,
                n \in 0..(up.rows - RowsSoFar(ws[s])) :
            /\ ws[s].sheets_read < up.sheets
            /\ Work(ws[s]) + 1 + n <= up.work
            /\ IF MissingColumns(columns) = {}
               THEN /\ ws' = [ws EXCEPT ![s].nsheets = @ + 1, ![s].sheet = sheet,
                                        ![s].sheets_read = @ + 1, ![s].columns = columns,
                                        ![s].file_rows = @ + n,
                                        ![s].from_import = next_id.imported,
                                        ![s].from_error = next_id.error,
                                        ![s].total_rows = n, ![s].idx = 0, ![s].row = NoRow,
                                        ![s].pc = IF n = 0 THEN "sheet" ELSE "row",
                                        ![s].results.valid_sheets = Append(@, sheet),
                                        ![s].results.total_rows = @ + n]
                    /\ UNCHANGED <<data_errors, next_id>>
               ELSE /\ data_errors' = data_errors \cup
                                        {ErrorRow(sheet, 0, "Estructura invalida", ws[s].user)}
                    /\ next_id' = [next_id EXCEPT !.error = @ + 1]
                    /\ ws' = [ws EXCEPT ![s].nsheets = @ + 1, ![s].sheet = sheet,
                                        ![s].sheets_read = @ + 1, ![s].columns = columns,
                                        ![s].file_rows = @ + n,
                                        ![s].from_import = next_id.imported,
                                        ![s].from_error = next_id.error,
                                        ![s].total_rows = 0, ![s].idx = 0, ![s].row = NoRow,
                                        ![s].results.invalid_sheets = Append(@, sheet)]
            /\ UNCHANGED <<sent, cpu>>
    /\ UNCHANGED <<data_imported, service, tasks>>
    /\ UNCHANGED reply

\* progress_callback: create_task(websocket.send_text(progress))
Progress(s, w) == [Msg EXCEPT !.event = "progress", !.filename = w.f,
                              !.progress = Percent(w.idx + 1, w.total_rows)]

\* process_excel_async: one iteration of the row loop, up to the sleep that
\* follows the progress callback (an empty name continues without it).
ImportRow(s, up) ==
    /\ ws[s].pc = "row"
    /\ cpu = s
    /\ \E row \in up.raw :
         LET w == ws[s]
             o == RowOutcome(row)
             row_num == w.idx + HeaderOffset
         IN  /\ IF o.kind = "valid"
                THEN /\ data_imported' = data_imported \cup {ImportedRow(w.sheet, row, w.user)}
                     /\ next_id' = [next_id EXCEPT !.imported = @ + 1]
                     /\ UNCHANGED data_errors
                ELSE /\ data_errors' = data_errors \cup {ErrorRow(w.sheet, row_num, o.msg, w.user)}
                     /\ next_id' = [next_id EXCEPT !.error = @ + 1]
                     /\ UNCHANGED data_imported
             /\ IF o.kind = "empty"
                THEN /\ ws' = [ws EXCEPT ![s].row = row, ![s].idx = @ + 1, ![s].pc = NextRowPc(w)]
                     /\ UNCHANGED <<tasks, cpu>>
                ELSE /\ ws' = [ws EXCEPT ![s].row = row, ![s].pc = "check"]
                     /\ tasks' = [tasks EXCEPT ![s] = Append(@, Progress(s, w))]
                     /\ cpu' = NoSession
    /\ UNCHANGED <<service, sent>>
    /\ UNCHANGED reply

\* the same iteration, the store rejecting the INSERT INTO data_imported of
\* a valid row: the handler of lines 130-137 writes a row-level error, and
\* the progress callback and the sleep follow
ImportRowFails(s, up) ==
    /\ ws[s].pc = "row"
    /\ cpu = s
    /\ \E row \in up.raw :
         LET w == ws[s] IN
         /\ RowOutcome(row).kind = "valid"
         /\ data_errors' = data_errors \cup
                             {ErrorRow(w.sheet, w.idx + HeaderOffset, "Error inesperado", w.user)}
         /\ next_id' = [next_id EXCEPT !.error = @ + 1]
         /\ ws' = [ws EXCEPT ![s].row = row, ![s].pc = "check"]
         /\ tasks' = [tasks EXCEPT ![s] = Append(@, Progress(s, w))]
    /\ cpu' = NoSession
    /\ UNCHANGED <<data_imported, service, sent>>
    /\ UNCHANGED reply

\* the same iteration, the store rejecting the INSERT INTO data_errors of
\* the row (line 88, 124 or 132): the exception leaves the row loop for the
\* handler of the sheet (148-156), which writes the sheet-level error and
\* goes on with the next sheet; when that INSERT is rejected too, the
\* exception ends process_excel_async and upload_excel sends the failure
\* message and closes
ImportRowErrorFails(s, up) ==
    /\ ws[s].pc = "row"
    /\ cpu = s
    /\ \E row \in up.raw, sheet_error_written \in BOOLEAN :
         LET w == ws[s] IN
         IF sheet_error_written
         THEN /\ data_errors' = data_errors \cup
                                  {ErrorRow(w.sheet, 0, "Error procesando hoja", w.user)}
              /\ next_id' = [next_id EXCEPT !.error = @ + 1]
              /\ ws' = [ws EXCEPT ![s].row = row, ![s].pc = "sheet",
                                  ![s].results.invalid_sheets = Append(@, w.sheet)]
              /\ UNCHANGED <<sent, cpu>>
         ELSE /\ sent' = Send(s, Envelope(FALSE, 500))
              /\ ws' = [ws EXCEPT ![s].row = row, ![s].pc = "done", ![s].conn = FALSE,
                                  ![s].open = FALSE]
              /\ cpu' = NoSession
              /\ UNCHANGED <<data_errors, next_id>>
    /\ UNCHANGED <<data_imported, service, tasks>>
    /\ UNCHANGED reply

\* a timeout that ends the session instead of the sheet
ImportCheckEndsSession(s) ==
    /\ ws[s].pc = "check"
    /\ cpu = NoSession
    /\ tasks[s] = << >>
    /\ IF ws[s].late
       THEN /\ sent' = Send(s, Envelope(FALSE, 500))
            /\ ws' = [ws EXCEPT ![s].pc = "done", ![s].conn = FALSE, ![s].open = FALSE]
            /\ cpu' = NoSession
       ELSE /\ ws' = [ws EXCEPT ![s].idx = @ + 1, ![s].row = NoRow, ![s].pc = NextRowPc(ws[s])]
            /\ cpu' = s
            /\ UNCHANGED sent
    /\ UNCHANGED <<data_imported, data_errors, service, next_id, tasks>>
    /\ UNCHANGED reply

\* a wake-up from the sleep that overtakes the send of the progress task
ImportCheckEarly(s) ==
    /\ ws[s].pc = "check"
    /\ cpu = NoSession
    /\ IF ws[s].late
       THEN /\ data_errors' = data_errors \cup
                                {ErrorRow(ws[s].sheet, 0, "Error procesando hoja", ws[s].user)}
            /\ next_id' = [next_id EXCEPT !.error = @ + 1]
            /\ ws' = [ws EXCEPT ![s].pc = "sheet", ![s].row = NoRow,
                                ![s].results.invalid_sheets = Append(@, ws[s].sheet)]
       ELSE /\ ws' = [ws EXCEPT ![s].idx = @ + 1, ![s].row = NoRow, ![s].pc = NextRowPc(ws[s])]
            /\ UNCHANGED <<data_errors, next_id>>
    /\ cpu' = s
    /\ UNCHANGED <<data_imported, service, sent, tasks>>
    /\ UNCHANGED reply

\* process_excel_async: after the sleep, the time budget check; a timeout is
\* caught by the sheet's handler (sheet-level error, invalid_sheets).  The
\* task created before the sleep is ahead of the sleeper's wake-up in the
\* loop's ready queue, so its send has run when the coroutine resumes.
ImportCheck(s) ==
    /\ ws[s].pc = "check"
    /\ cpu = NoSession
    /\ tasks[s] = << >>
    /\ IF ws[s].late
       THEN /\ data_errors' = data_errors \cup
                                {ErrorRow(ws[s].sheet, 0, "Error procesando hoja", ws[s].user)}
            /\ next_id' = [next_id EXCEPT !.error = @ + 1]
            /\ ws' = [ws EXCEPT ![s].pc = "sheet", ![s].row = NoRow,
                                ![s].results.invalid_sheets = Append(@, ws[s].sheet)]
       ELSE /\ ws' = [ws EXCEPT ![s].idx = @ + 1, ![s].row = NoRow, ![s].pc = NextRowPc(ws[s])]
            /\ UNCHANGED <<data_errors, next_id>>
    /\ cpu' = s
    /\ UNCHANGED <<data_imported, service, sent, tasks>>
    /\ UNCHANGED reply

\* time.time() - start_time > max_time becomes true, while a row is being
\* handled (its inserts) or during the sleep that follows it
TimeExpires(s) ==
    /\ ws[s].kind = "import"
    /\ ws[s].pc \in {"row", "check"}
    /\ ~ws[s].late
    /\ ws' = [ws EXCEPT ![s].late = TRUE]
    /\ UNCHANGED <<data_imported, data_errors, service, next_id, sent, tasks, cpu>>
    /\ UNCHANGED reply

\* a task created by progress_callback runs its send_text
TaskSend(s) ==
    /\ tasks[s] # << >>
    /\ cpu = NoSession
    /\ tasks' = [tasks EXCEPT ![s] = Tail(@)]
    /\ sent' = IF ws[s].open THEN Send(s, Head(tasks[s])) ELSE sent
    /\ UNCHANGED <<data_imported, data_errors, service, next_id, ws, cpu>>
    /\ UNCHANGED reply

\* -------------------------------------------------- confirmation session
\* a progress event that counts the records from 0
ProgressOfZeroBased(w, i, status) ==
    [Msg EXCEPT !.event = "progress", !.current = i - 1, !.total = w.fetched,
                !.progress = Percent(i, w.fetched), !.status = status,
                !.name = w.records[i].name]

\* the progress event of record i (lines 523-530, 549-556, 565-573)
ProgressOf(w, i, status) ==
    [Msg EXCEPT !.event = "progress", !.current = i, !.total = w.fetched,
                !.progress = Percent(i, w.fetched), !.status = status,
                !.name = w.records[i].name]

\* confirm_import_ws up to the call of confirm_import_to_service, the fetch of
\* the records and the start_confirmation event; with no record, the return
\* of the empty stats and the terminal message.
ConfirmOpen(s) ==
    /\ ws[s].pc = "idle"
    /\ cpu = NoSession
    /\ \E auth \in AuthOutcomes, u \in Principals, selected \in SUBSET SheetNames :
         IF auth # "ok" \/ selected = {}
         THEN /\ sent' = Send(s, Envelope(FALSE, IF auth # "ok" THEN 401 ELSE 400))
              /\ ws' = [ws EXCEPT ![s].kind = "confirm", ![s].pc = "done", ![s].open = FALSE]
         ELSE LET records == FetchRecords(u, selected) IN
              /\ PoolHasFree
              /\ IF Len(records) = 0
                 THEN /\ sent' = Send(s, [Envelope(TRUE, 200) EXCEPT !.status = "nothing to confirm"])
                      /\ ws' = [ws EXCEPT ![s].kind = "confirm", ![s].pc = "done", ![s].user = u,
                                          ![s].selected = selected, ![s].open = FALSE]
                 ELSE /\ sent' = Send(s, [Msg EXCEPT !.event = "start_confirmation",
                                                     !.total = Len(records)])
                      /\ ws' = [ws EXCEPT ![s].kind = "confirm", ![s].pc = "loop", ![s].user = u,
                                          ![s].selected = selected, ![s].conn = TRUE,
                                          ![s].records = records, ![s].fetched = Len(records),
                                          ![s].idx = 0, ![s].stats = EmptyStats]
    /\ UNCHANGED <<data_imported, data_errors, service, next_id, tasks, cpu>>
    /\ UNCHANGED reply

\* stats after a record found in the catalog: the continue skips the count
\* of processed records
CountDuplicated(st) == [st EXCEPT !.duplicated = @ + 1]

CountInserted(st) == [st EXCEPT !.inserted = @ + 1, !.total_processed = @ + 1]

CountFailed(st, name) == [st EXCEPT !.failed = @ + 1, !.errors = Append(@, name),
                                    !.total_processed = @ + 1]

\* confirm_import_to_service: one iteration of the loop over the records,
\* the store accepting the insert
ConfirmRecord(s) ==
    /\ ws[s].pc = "loop"
    /\ cpu = NoSession
    /\ ws[s].idx < ws[s].fetched
    /\ LET w == ws[s]
           i == w.idx + 1
           record == w.records[i]
       IN  IF Existing(record.name)
           THEN /\ ws' = [ws EXCEPT ![s].idx = i, ![s].stats = CountDuplicated(@)]
                /\ sent' = Send(s, ProgressOf(w, i, "duplicated"))
                /\ UNCHANGED <<service, next_id>>
           ELSE /\ service' = service \cup {ServiceRow(record)}
                /\ next_id' = [next_id EXCEPT !.service = @ + 1]
                /\ ws' = [ws EXCEPT ![s].idx = i, ![s].stats = CountInserted(@)]
                /\ sent' = Send(s, ProgressOf(w, i, "inserted"))
    /\ UNCHANGED <<data_imported, data_errors, tasks, cpu>>
    /\ UNCHANGED reply

\* a store failure that ends the run instead of the record
ConfirmRecordFailsAborts(s) ==
    /\ ws[s].pc = "loop"
    /\ cpu = NoSession
    /\ ws[s].idx < ws[s].fetched
    /\ ~Existing(ws[s].records[ws[s].idx + 1].name)
    /\ ws' = [ws EXCEPT ![s].pc = "done", ![s].conn = FALSE, ![s].open = FALSE,
                        ![s].stats = CountFailed(@, ws[s].records[ws[s].idx + 1].name)]
    /\ sent' = Send(s, Envelope(FALSE, 500))
    /\ UNCHANGED <<data_imported, data_errors, service, next_id, tasks, cpu>>
    /\ UNCHANGED reply

\* the same iteration, the store rejecting the INSERT INTO service
ConfirmRecordFails(s) ==
    /\ ws[s].pc = "loop"
    /\ cpu = NoSession
    /\ ws[s].idx < ws[s].fetched
    /\ LET w == ws[s]
           i == w.idx + 1
           record == w.records[i]
       IN  /\ ~Existing(record.name)
           /\ ws' = [ws EXCEPT ![s].idx = i, ![s].stats = CountFailed(@, record.name)]
           /\ sent' = Send(s, ProgressOf(w, i, "failed"))
    /\ UNCHANGED <<data_imported, data_errors, service, next_id, tasks, cpu>>
    /\ UNCHANGED reply

\* confirm_import_to_service: after the loop, the clearing of the principal's
\* staging tables and the completed event
ConfirmFinish(s) ==
    /\ ws[s].pc = "loop"
    /\ cpu = NoSession
    /\ ws[s].idx = ws[s].fetched
    /\ data_imported' = ClearImported(ws[s].user)
    /\ data_errors' = ClearErrors(ws[s].user)
    /\ sent' = Send(s, [Msg EXCEPT !.event = "completed", !.stats = ws[s].stats])
    /\ ws' = [ws EXCEPT ![s].pc = "completed"]
    /\ UNCHANGED <<service, next_id, tasks, cpu>>
    /\ UNCHANGED reply

\* a return from confirm_import_to_service that keeps the connection
ConfirmTerminalKeepsLease(s) ==
    /\ ws[s].pc = "completed"
    /\ cpu = NoSession
    /\ sent' = Send(s, [Envelope(TRUE, 200) EXCEPT !.stats = ws[s].stats])
    /\ ws' = [ws EXCEPT ![s].pc = "done", ![s].open = FALSE]
    /\ UNCHANGED <<data_imported, data_errors, service, next_id, tasks, cpu>>
    /\ UNCHANGED reply

\* confirm_import_ws: the terminal message with the stats, and the close
ConfirmTerminal(s) ==
    /\ ws[s].pc = "completed"
    /\ cpu = NoSession
    /\ sent' = Send(s, [Envelope(TRUE, 200) EXCEPT !.stats = ws[s].stats])
    /\ ws' = [ws EXCEPT ![s].pc = "done", ![s].conn = FALSE, ![s].open = FALSE]
    /\ UNCHANGED <<data_imported, data_errors, service, next_id, tasks, cpu>>
    /\ UNCHANGED reply

\* ------------------------------------------------------------ specifications
\* One import-stage session, after earlier sessions left staging rows.
InitImport ==
    InitWith({<<[sheet |-> 1, name |-> <<"a">>, user |-> 1],
               [sheet |-> 1, name |-> <<"b">>, user |-> 2]>>},
             {Principals})

\* the uploads of principal 1: up to MaxFiles workbooks, MaxSheets sheets and
\* MaxRows rows in all
Uploads == [principals |-> {1}, files |-> MaxFiles, sheets |-> MaxSheets, rows |-> MaxRows,
            work |-> MaxWork,
            names |-> SheetNames, columns |-> ColumnSets, raw |-> RawRows]

NextImport ==
    \/ ImportOpen(1, Uploads)
    \/ ImportFile(1)
    \/ ImportParse(1, Uploads)
    \/ ImportSheet(1, Uploads)
    \/ ImportRow(1, Uploads)
    \/ ImportCheck(1)
    \/ TimeExpires(1)
    \/ TaskSend(1)

SpecImport == InitImport /\ [][NextImport]_vars

\* The same session, the store free to reject an insert of a row's outcome.
NextImportFaulty ==
    \/ NextImport
    \/ ImportRowFails(1, Uploads)
    \/ ImportRowErrorFails(1, Uploads)

SpecImportFaulty == InitImport /\ [][NextImportFaulty]_vars

\* One confirmation session over any staging content, the store reliable.
InitConfirm == InitWith(SeqsUpTo(StagedKinds, MaxStaged), {Principals})

NextConfirm ==
    \/ ConfirmOpen(1)
    \/ ConfirmRecord(1)
    \/ ConfirmFinish(1)
    \/ ConfirmTerminal(1)

SpecConfirm == InitConfirm /\ [][NextConfirm]_vars

\* The same, the store free to reject an insert into the catalog.
NextConfirmFaulty == NextConfirm \/ ConfirmRecordFails(1)

SpecConfirmFaulty == InitConfirm /\ [][NextConfirmFaulty]_vars

\* Two concurrent streaming sessions of either kind, by any principals, over
\* staging rows left by an earlier upload; an upload is one workbook with one
\* sheet named 1 of up to ConcRows rows, each valid or with a bad duration;
\* the store may reject an insert into the catalog.
ConcRows == 1
ConcStaged == 1

ConcUploads == [principals |-> Principals, files |-> 1, sheets |-> 1, rows |-> ConcRows,
                work |-> ConcRows + 2,
                names |-> {1}, columns |-> {EXPECTED_COLUMNS, {"name"}},
                raw |-> {RawRow(<<" ", "a">>, Txt(<<"3", "0">>), Num(0)),
                         RawRow(<<"a">>, Num(0), Num(0))}]

Init == InitWith(SeqsUpTo([sheet : {1}, name : {<<"a">>}, user : Principals], ConcStaged),
                 {Principals})

Next ==
    \E s \in Sessions :
        \/ ImportOpen(s, ConcUploads)
        \/ ImportFile(s)
        \/ ImportParse(s, ConcUploads)
        \/ ImportSheet(s, ConcUploads)
        \/ ImportRow(s, ConcUploads)
        \/ ImportCheck(s)
        \/ TimeExpires(s)
        \/ TaskSend(s)
        \/ ConfirmOpen(s)
        \/ ConfirmRecord(s)
        \/ ConfirmRecordFails(s)
        \/ ConfirmFinish(s)
        \/ ConfirmTerminal(s)

Spec == Init /\ [][Next]_vars

SpecConfirmFaultyFair == SpecConfirmFaulty /\ WF_vars(NextConfirmFaulty)

\* ------------------------------------------------- the HTTP endpoints
\* The token check at the head of get_uploaded_sheets, update_imported_row
\* and cancel_preview: the failure mode and its status code.
HttpAuthOutcomes == {"ok", "bad_format", "invalid_token", "unknown_user", "not_admin"}

AuthCode(auth) == CASE auth = "unknown_user" -> 404
                    [] auth = "not_admin" -> 403
                    [] OTHER -> 401

\* the response of an endpoint that stops at the token check
AuthReply(op, auth) ==
    [NoReply EXCEPT !.seq = reply.seq + 1, !.op = op, !.code = AuthCode(auth),
                    !.message = auth]

\* a cancel that leaves the staging errors in place
CancelPreviewKeepsErrors(u) ==
    /\ reply.seq < MaxRequests
    /\ \E auth \in HttpAuthOutcomes :
         IF auth # "ok"
         THEN /\ reply' = AuthReply("cancel", auth)
              /\ UNCHANGED <<data_imported, data_errors>>
         ELSE /\ data_imported' = ClearImported(u)
              /\ UNCHANGED data_errors
              /\ reply' = [NoReply EXCEPT !.seq = reply.seq + 1, !.op = "cancel", !.user = u,
                                          !.success = TRUE, !.code = 200,
                                          !.deleted_rows = Cardinality(StagedOf(u)),
                                          !.deleted_errors = Cardinality(ErrorsOf(u))]
    /\ UNCHANGED <<service, next_id, ws, sent, tasks, cpu>>

\* cancel_preview and cancel_user_preview: the two DELETEs by user_id, their
\* rowcounts in the response
CancelPreview(u) ==
    /\ reply.seq < MaxRequests
    /\ \E auth \in HttpAuthOutcomes :
         IF auth # "ok"
         THEN /\ reply' = AuthReply("cancel", auth)
              /\ UNCHANGED <<data_imported, data_errors>>
         ELSE /\ data_imported' = ClearImported(u)
              /\ data_errors' = ClearErrors(u)
              /\ reply' = [NoReply EXCEPT !.seq = reply.seq + 1, !.op = "cancel", !.user = u,
                                          !.success = TRUE, !.code = 200,
                                          !.message = IF StagedOf(u) = {} /\ ErrorsOf(u) = {}
                                                      THEN "No habia datos para eliminar"
                                                      ELSE "Previsualizacion cancelada",
                                          !.deleted_rows = Cardinality(StagedOf(u)),
                                          !.deleted_errors = Cardinality(ErrorsOf(u))]
    /\ UNCHANGED <<service, next_id, ws, sent, tasks, cpu>>


\* the request bodies of PUT /sheets/{id_import}: the empty body, bodies
\* with one bad field alone or next to a good one, a body with a key that
\* is not a staged-row field, and bodies that pass every check
UpdateBodies ==
    { << >>,
      [price |-> Num(-1)],
      [name |-> Txt(<<"b">>), price |-> Num(-1)],
      [name |-> Txt(<<" ">>), price |-> Num(7)],
      [duration_minutes |-> Txt(<<"x">>), price |-> Num(7)],
      [name |-> Txt(<<"b">>), duration_minutes |-> Num(0)],
      [price |-> Num(7), user_id |-> Num(2)],
      [name |-> Txt(<<" ", "b">>), price |-> Txt(<<"7">>)],
      [description |-> Txt(<<" ">>), state |-> Txt(<<"0">>)] }

allowed_fields == {"name", "description", "duration_minutes", "price", "state"}

\* a check of the price that lets negative values through
UpdateOutcomeAnyPrice(updates) ==
    LET has(k) == k \in DOMAIN updates IN
    IF DOMAIN updates \ allowed_fields # {}
    THEN "Campos no permitidos"
    ELSE IF has("name") /\ Strip(CellStr(updates.name)) = << >>
    THEN "El nombre no puede estar vacio"
    ELSE IF has("duration_minutes") /\ ~IntOk(updates.duration_minutes)
    THEN "Duracion invalida"
    ELSE IF has("duration_minutes") /\ IntVal(updates.duration_minutes) <= 0
    THEN "La duracion debe ser mayor a 0"
    ELSE IF has("price") /\ ~FloatOk(updates.price)
    THEN "Precio invalido"
    ELSE "ok"

\* a check that lets unknown keys through
UpdateOutcomeAnyKey(updates) ==
    LET has(k) == k \in DOMAIN updates IN
    IF has("name") /\ Strip(CellStr(updates.name)) = << >>
    THEN "El nombre no puede estar vacio"
    ELSE IF has("duration_minutes") /\ ~IntOk(updates.duration_minutes)
    THEN "Duracion invalida"
    ELSE IF has("duration_minutes") /\ IntVal(updates.duration_minutes) <= 0
    THEN "La duracion debe ser mayor a 0"
    ELSE IF has("price") /\ ~FloatOk(updates.price)
    THEN "Precio invalido"
    ELSE IF has("price") /\ FloatVal(updates.price) < 0
    THEN "El precio no puede ser negativo"
    ELSE "ok"

\* update_imported_row, before the store is touched: the allowed keys, then
\* the checks of name, duration_minutes and price in this order; the message
\* of the first failure, or "ok"
UpdateOutcome(updates) ==
    LET has(k) == k \in DOMAIN updates IN
    IF DOMAIN updates \ allowed_fields # {}
    THEN "Campos no permitidos"
    ELSE IF has("name") /\ Strip(CellStr(updates.name)) = << >>
    THEN "El nombre no puede estar vacio"
    ELSE IF has("duration_minutes") /\ ~IntOk(updates.duration_minutes)
    THEN "Duracion invalida"
    ELSE IF has("duration_minutes") /\ IntVal(updates.duration_minutes) <= 0
    THEN "La duracion debe ser mayor a 0"
    ELSE IF has("price") /\ ~FloatOk(updates.price)
    THEN "Precio invalido"
    ELSE IF has("price") /\ FloatVal(updates.price) < 0
    THEN "El precio no puede ser negativo"
    ELSE "ok"

\* the value update_imported_row writes for field k
UpdateValue(updates, k) ==
    CASE k = "name" -> Strip(CellStr(updates[k]))
      [] k = "description" -> StrOrNone(CellStr(updates[k]))
      [] k = "duration_minutes" -> IntVal(updates[k])
      [] k = "price" -> FloatVal(updates[k])
      [] k = "state" -> BoolVal(updates[k])
      [] OTHER -> IntVal(updates[k])

\* UPDATE data_imported SET <the supplied fields> on row r
Updated(r, updates) ==
    [k \in DOMAIN r \cup DOMAIN updates |->
        IF k \in DOMAIN updates THEN UpdateValue(updates, k) ELSE r[k]]

\* a lookup by id alone
OwnedRowsAnyOwner(u, id) == {r \in data_imported : r.id = id}

\* SELECT id_import FROM data_imported WHERE id_import = %s AND user_id = %s
OwnedRows(u, id) == {r \in data_imported : r.id = id /\ r.user = u}

UpdateReply(u, id, updates, ok, message) ==
    [NoReply EXCEPT !.seq = reply.seq + 1, !.op = "update", !.user = u,
                    !.req_id = id, !.req_body = updates, !.success = ok, !.code = IF ok THEN 200 ELSE 400,
                    !.message = message, !.id_import = IF ok THEN id ELSE 0]

\* the requests to PUT /sheets/{id_import}: every id and body with a good
\* token, and one request for each failure of the token check
UpdateRequests ==
    [auth : {"ok"}, id : 1..(StagingRows + 1), updates : UpdateBodies]
    \cup [auth : HttpAuthOutcomes \ {"ok"}, id : {1}, updates : {[price |-> Num(7)]}]

\* PUT /sheets/{id_import}: the route and update_imported_row.  An UPDATE
\* that changes no value reports rowcount 0 or 1, as the connection counts
\* changed or matched rows.
UpdateRow(u, auth, id, updates) ==
    /\ reply.seq < MaxRequests
    /\   IF auth # "ok"
         THEN /\ reply' = AuthReply("update", auth)
              /\ UNCHANGED data_imported
         ELSE IF DOMAIN updates = {}
         THEN /\ reply' = UpdateReply(u, id, updates, FALSE, "Datos de actualizacion invalidos")
              /\ UNCHANGED data_imported
         ELSE IF UpdateOutcome(updates) # "ok"
         THEN /\ reply' = UpdateReply(u, id, updates, FALSE, UpdateOutcome(updates))
              /\ UNCHANGED data_imported
         ELSE IF OwnedRows(u, id) = {}
         THEN /\ reply' = UpdateReply(u, id, updates, FALSE, "Registro no encontrado o no autorizado")
              /\ UNCHANGED data_imported
         ELSE LET r == CHOOSE x \in OwnedRows(u, id) : TRUE
                  changed == Updated(r, updates) # r
              IN  /\ data_imported' = (data_imported \ {r}) \cup {Updated(r, updates)}
                  /\ \E found_rows \in (IF changed THEN {TRUE} ELSE BOOLEAN) :
                       reply' = IF found_rows
                                THEN UpdateReply(u, id, updates, TRUE, "Registro actualizado exitosamente")
                                ELSE UpdateReply(u, id, updates, FALSE, "No se pudo actualizar el registro")
    /\ UNCHANGED <<data_errors, service, next_id, ws, sent, tasks, cpu>>

RECURSIVE SumOver(_, _)
SumOver(S, f) ==
    IF S = {} THEN 0
    ELSE LET x == CHOOSE y \in S : TRUE IN f[x] + SumOver(S \ {x}, f)

\* get_uploaded_sheets_by_user: the sheets with staged rows, then the sheets
\* that have errors only; total_sheets is len(sheets) of the first query
ListSheets(u) ==
    /\ reply.seq < MaxRequests
    /\ \E auth \in HttpAuthOutcomes :
         IF auth # "ok"
         THEN reply' = AuthReply("list", auth)
         ELSE LET sheets == {r.sheet : r \in StagedOf(u)}
                  invalid_sheets == {e.sheet : e \in ErrorsOf(u)} \ sheets
                  row_count == [sh \in SheetNames |->
                                  Cardinality({r \in StagedOf(u) : r.sheet = sh})]
                  error_count == [sh \in SheetNames |->
                                    Cardinality({e \in ErrorsOf(u) : e.sheet = sh})]
              IN  reply' = [NoReply EXCEPT
                    !.seq = reply.seq + 1, !.op = "list", !.user = u,
                    !.success = TRUE, !.code = 200,
                    !.sheets = {[sheet |-> sh, total_rows |-> row_count[sh],
                                 error_count |-> error_count[sh]] : sh \in sheets}
                               \cup {[sheet |-> sh, total_rows |-> 0,
                                      error_count |-> error_count[sh]] : sh \in invalid_sheets},
                    !.total_sheets = Cardinality(sheets),
                    !.total_rows = SumOver(sheets, row_count),
                    !.total_errors = SumOver(sheets, error_count)
                                     + SumOver(invalid_sheets, error_count),
                    !.has_invalid_sheets = invalid_sheets # {}]
    /\ UNCHANGED <<data_imported, data_errors, service, next_id, ws, sent, tasks, cpu>>

\* staging left by earlier import sessions of the two principals: rows of
\* both sheets, and errors of a sheet with rows and of a sheet without
StagingErrorTables ==
    { {},
      { [id |-> 1, sheet |-> 1, row_num |-> 3, msg |-> "Duracion invalida", user |-> 1],
        [id |-> 2, sheet |-> 2, row_num |-> 0, msg |-> "Estructura invalida", user |-> 1],
        [id |-> 3, sheet |-> 2, row_num |-> 0, msg |-> "Estructura invalida", user |-> 2] } }

\* the rows staged by earlier import sessions, in the order of their ids
StagingPattern ==
    << [sheet |-> 1, name |-> <<"a">>, user |-> 1], [sheet |-> 2, name |-> <<"a">>, user |-> 1],
       [sheet |-> 1, name |-> <<"a">>, user |-> 2], [sheet |-> 2, name |-> <<"a">>, user |-> 2],
       [sheet |-> 1, name |-> <<"a">>, user |-> 1] >>

InitStaging ==
    /\ \E k \in 0..StagingRows :
         LET q == [i \in 1..k |-> StagingPattern[((i - 1) % Len(StagingPattern)) + 1]] IN
         /\ data_imported = StagedTable(q)
         /\ next_id = [imported |-> Len(q) + 1, error |-> 4, service |-> 1]
    /\ data_errors \in StagingErrorTables
    /\ service = {}
    /\ ws = [s \in Sessions |-> NewSession]
    /\ sent = [s \in Sessions |-> << >>]
    /\ tasks = [s \in Sessions |-> << >>]
    /\ cpu = NoSession
    /\ reply = NoReply

NextStaging ==
    \E u \in Principals :
        \/ ListSheets(u)
        \/ CancelPreview(u)
        \/ \E q \in UpdateRequests : UpdateRow(u, q.auth, q.id, q.updates)

SpecStaging == InitStaging /\ [][NextStaging]_vars

\* An import session of principal 1 (session 1) and a confirmation session
\* of any principal (session 2), the store reliable and the time budget
\* never used up, interleaved with the requests that write the staging
\* tables (PUT /sheets/{id_import}, DELETE /cancel) and carry a good token,
\* by any principal.
\* The endpoints are plain functions, which the server runs on worker
\* threads: a request is answered at any point of the sessions, also between
\* two awaits of a coroutine.
MixStaged == 1     \* staged rows present at the start (SpecMixed)
MixRequests == 1   \* requests answered by the HTTP endpoints (SpecMixed)

\* the upload: one workbook with one sheet named 1 of up to one row, valid
\* or with a bad duration
MixUploads == [principals |-> {1}, files |-> 1, sheets |-> 1, rows |-> 1,
               work |-> 3,
               names |-> {1}, columns |-> {EXPECTED_COLUMNS},
               raw |-> {RawRow(<<" ", "a">>, Txt(<<"3", "0">>), Num(0)),
                        RawRow(<<"a">>, Num(0), Num(0))}]

\* the requests to PUT /sheets/{id_import}: a body that passes the checks
\* and one that fails them, for every staged id
MixUpdateRequests ==
    [auth : {"ok"}, id : 1..(MixStaged + 1),
     updates : {[name |-> Txt(<<" ", "b">>), price |-> Txt(<<"7">>)], [price |-> Num(-1)]}]

InitMixed ==
    InitWith({q \in SeqsUpTo([sheet : {1}, name : {<<"a">>}, user : Principals], MixStaged) :
                Len(q) = MixStaged},
             {Principals})

\* the request answered is within the number of requests of this
\* specification and carried a good token
MixAnswered == reply'.seq <= MixRequests /\ reply'.user # 0

NextMixed ==
    \/ ImportOpen(1, MixUploads)
    \/ ImportFile(1)
    \/ ImportParse(1, MixUploads)
    \/ ImportSheet(1, MixUploads)
    \/ ImportRow(1, MixUploads)
    \/ ImportCheck(1)
    \/ TaskSend(1)
    \/ ConfirmOpen(2)
    \/ ConfirmRecord(2)
    \/ ConfirmFinish(2)
    \/ ConfirmTerminal(2)
    \/ \E u \in Principals :
         \/ CancelPreview(u) /\ MixAnswered
         \/ \E q \in MixUpdateRequests : UpdateRow(u, q.auth, q.id, q.updates) /\ MixAnswered

SpecMixed == InitMixed /\ [][NextMixed]_vars

\* ------------------------------------------------- the connection pool
\* get_conn with every connection of the pool leased: pool.get_connection()
\* raises, nothing is leased or closed, and the route's handler sends the
\* failure message and closes.  At the start of an import session it is
\* clear_temp_tables that asks for the connection.
ImportOpenExhausted(s, up) ==
    /\ ws[s].pc = "idle"
    /\ cpu = NoSession
    /\ ~PoolHasFree
    /\ \E u \in up.principals :
         ws' = [ws EXCEPT ![s].kind = "import", ![s].pc = "done", ![s].user = u,
                          ![s].open = FALSE]
    /\ sent' = Send(s, Envelope(FALSE, 500))
    /\ UNCHANGED <<data_imported, data_errors, service, next_id, tasks, cpu>>
    /\ UNCHANGED reply

\* process_excel_async: the workbook is read, no connection is left
ImportParseExhausted(s) ==
    /\ ws[s].pc = "parse"
    /\ cpu = NoSession
    /\ ~PoolHasFree
    /\ ws' = [ws EXCEPT ![s].pc = "done", ![s].open = FALSE]
    /\ sent' = Send(s, Envelope(FALSE, 500))
    /\ UNCHANGED <<data_imported, data_errors, service, next_id, tasks, cpu>>
    /\ UNCHANGED reply

\* confirm_import_to_service: no connection is left for the fetch
ConfirmOpenExhausted(s) ==
    /\ ws[s].pc = "idle"
    /\ cpu = NoSession
    /\ ~PoolHasFree
    /\ \E u \in Principals, selected \in (SUBSET SheetNames) \ {{}} :
         ws' = [ws EXCEPT ![s].kind = "confirm", ![s].pc = "done", ![s].user = u,
                          ![s].selected = selected, ![s].open = FALSE]
    /\ sent' = Send(s, Envelope(FALSE, 500))
    /\ UNCHANGED <<data_imported, data_errors, service, next_id, tasks, cpu>>
    /\ UNCHANGED reply

\* One import session of principal 2 (session 1) and confirmation sessions
\* (the others), more than the pool has connections, over one staged row of
\* principal 1; the upload is one workbook with one sheet of one valid row.  The
\* confirmation sessions are alike: each is opened by principal 1 for sheet
\* 1 with a good token, and they are opened in the order of their numbers.
PoolSessions == 6   \* streaming sessions (SpecPool)

PoolUploads == [principals |-> {2}, files |-> 1, sheets |-> 1, rows |-> 1, work |-> 3,
                names |-> {1}, columns |-> {EXPECTED_COLUMNS},
                raw |-> {RawRow(<<" ", "a">>, Txt(<<"3", "0">>), Num(0))}]

InitPool ==
    /\ data_imported = StagedTable(<<[sheet |-> 1, name |-> <<"a">>, user |-> 1]>>)
    /\ next_id = [imported |-> 2, error |-> 3, service |-> 1]
    /\ data_errors = ErrorTable(Principals)
    /\ service = {}
    /\ ws = [s \in 1..PoolSessions |-> NewSession]
    /\ sent = [s \in 1..PoolSessions |-> << >>]
    /\ tasks = [s \in 1..PoolSessions |-> << >>]
    /\ cpu = NoSession
    /\ reply = NoReply

\* the confirmation session before s has been opened
OpenedInOrder(s) == s = 2 \/ ws[s - 1].pc # "idle"

\* session s was opened by principal 1 for sheet 1
AsksSheetOne(s) == ws'[s].user = 1 /\ ws'[s].selected = {1}

\* the workbook of session s is well formed: pd.read_excel reads it
WorkbookReads(s) == ws'[s].pc = "sheet"

NextPool ==
    \/ ImportOpen(1, PoolUploads)
    \/ ImportOpenExhausted(1, PoolUploads)
    \/ ImportFile(1)
    \/ ImportParse(1, PoolUploads) /\ WorkbookReads(1)
    \/ ImportParseExhausted(1)
    \/ ImportSheet(1, PoolUploads)
    \/ ImportRow(1, PoolUploads)
    \/ ImportCheck(1)
    \/ TaskSend(1)
    \/ \E s \in 2..PoolSessions :
         \/ OpenedInOrder(s) /\ ConfirmOpen(s) /\ AsksSheetOne(s)
         \/ OpenedInOrder(s) /\ ConfirmOpenExhausted(s) /\ AsksSheetOne(s)
         \/ ConfirmRecord(s)
         \/ ConfirmFinish(s)
         \/ ConfirmTerminal(s)

SpecPool == InitPool /\ [][NextPool]_vars

\* ------------------------------------------------------------------ claims
\* indices of the progress events of session s that report record i
ProgressEvents(s, i) ==
    {k \in 1..Len(sent[s]) : sent[s][k].event = "progress" /\ sent[s][k].current = i}

Events(s, event) == {k \in 1..Len(sent[s]) : sent[s][k].event = event}

\* the confirmation run of session s has processed all its records and has
\* not yet cleared the staging tables
AllProcessed(s) ==
    ws[s].kind = "confirm" /\ ws[s].pc = "loop" /\ ws[s].idx = ws[s].fetched

\* the confirmation run of session s fetched records and is past its loop
Completed(s) ==
    ws[s].kind = "confirm" /\ ws[s].pc \in {"completed", "done"} /\ ws[s].fetched >= 1

RequestedRows(s) ==
    {r \in data_imported : r.user = ws[s].user /\ r.sheet \in ws[s].selected}

\* C1: when a confirmation run has processed all its records, inserted +
\* duplicated + failed = total_processed = the number of staged rows of the
\* principal in the requested sheets.
C1_SumInvariant ==
    AllProcessed(1) =>
        LET st == ws[1].stats IN
        /\ st.inserted + st.duplicated + st.failed = st.total_processed
        /\ st.total_processed = Cardinality(RequestedRows(1))

\* the names the catalog held before any confirmation run
InitialNames == {sv.name : sv \in service \cap UNION InitialCatalogs}

\* the staged row that comes first in (sheet name, staging id) order among
\* the requested rows named as r
FirstOfName(s, r) ==
    \A o \in RequestedRows(s) :
        (o.name = r.name /\ o # r) => (r.sheet < o.sheet \/ (r.sheet = o.sheet /\ r.id < o.id))

StatusOf(s, i) == sent[s][CHOOSE k \in ProgressEvents(s, i) : TRUE].status

\* C3: in one confirmation run, of k >= 2 requested rows sharing a name that
\* the catalog lacks, the first in (sheet name, staging id) order is inserted,
\* the others are reported as duplicated, and one service has that name.
C3_FirstOfSharedNameInserted ==
    AllProcessed(1) =>
        \A i \in 1..ws[1].fetched :
            LET r == ws[1].records[i]
                same == {o \in RequestedRows(1) : o.name = r.name}
            IN  (r.name \notin InitialNames /\ Cardinality(same) >= 2) =>
                    /\ Cardinality(ProgressEvents(1, i)) = 1
                    /\ StatusOf(1, i) = IF FirstOfName(1, r) THEN "inserted" ELSE "duplicated"
                    /\ Cardinality({sv \in service : sv.name = r.name}) = 1
                    /\ FirstOfName(1, r) =>
                           \E sv \in service : /\ sv.name = r.name
                                               /\ sv.duration_minutes = r.duration_minutes

\* two requested rows share a new name, the later staging id on the earlier sheet
C3_Witness ==
    /\ AllProcessed(1)
    /\ \E a, b \in RequestedRows(1) :
         /\ a.name = b.name /\ a.name \notin InitialNames
         /\ a.id < b.id /\ b.sheet < a.sheet
         /\ \E sv \in service : sv.name = b.name /\ sv.duration_minutes = b.duration_minutes

\* C4: a store failure on the insert of a record is counted as failed with its
\* message, every fetched record gets exactly one progress event, and the run
\* goes on to the completed event and its end.
C4_FailureIsPerRecord ==
    /\ [](Completed(1) =>
            /\ \A i \in 1..ws[1].fetched : Cardinality(ProgressEvents(1, i)) = 1
            /\ Cardinality(Events(1, "completed")) = 1
            /\ ws[1].stats.failed = Len(ws[1].stats.errors)
            /\ ws[1].stats.failed =
                 Cardinality({k \in 1..Len(sent[1]) : sent[1][k].status = "failed"}))
    /\ ((ws[1].pc = "loop" /\ ws[1].stats.failed >= 1)
            ~> (ws[1].pc = "done" /\ Events(1, "completed") # {}))

\* the insert of a record failed and a later record was inserted
C4_Witness ==
    /\ Completed(1)
    /\ ws[1].pc = "done"
    /\ \E k, m \in 1..Len(sent[1]) :
         /\ sent[1][k].status = "failed" /\ sent[1][m].status = "inserted"
         /\ sent[1][k].current < sent[1][m].current

\* C5: once a confirmation run that fetched a record has processed all of
\* them and cleared, the principal has no staged row and no staging error.
C5_StagingCleared ==
    Completed(1) => StagedOf(ws[1].user) = {} /\ ErrorsOf(ws[1].user) = {}

\* a run with a failed and a duplicated record and a sheet left unselected
C5_Witness ==
    /\ Completed(1)
    /\ ws[1].stats.failed >= 1 /\ ws[1].stats.duplicated >= 1
    /\ ws[1].selected # SheetNames
    /\ StagedOf(ws[1].user) = {} /\ ErrorsOf(ws[1].user) = {}
    /\ data_imported # {}

\* C2: the catalog never holds two services with the same name, and a record
\* whose name the catalog holds is counted as duplicated and not inserted.
C2_CatalogNamesUnique ==
    /\ [](\A a, b \in service : a.name = b.name => a = b)
    /\ [][\A s \in Sessions :
            (/\ ws[s].kind = "confirm" /\ ws[s].pc = "loop"
             /\ ws'[s].idx = ws[s].idx + 1
             /\ \E sv \in service : sv.name = ws[s].records[ws'[s].idx].name)
            => /\ service' = service
               /\ ws'[s].stats.duplicated = ws[s].stats.duplicated + 1
               /\ ws'[s].stats.inserted = ws[s].stats.inserted
               /\ sent'[s][Len(sent'[s])].status = "duplicated"]_vars

\* two overlapping confirmation runs fetched rows of one name the catalog
\* lacked: one inserted it, the other reported the duplicate
C2_Witness ==
    /\ ws[1].kind = "confirm" /\ ws[2].kind = "confirm"
    /\ ws[1].pc = "loop" /\ ws[2].pc = "loop"
    /\ ws[1].fetched >= 1 /\ ws[2].fetched >= 1
    /\ ws[1].stats.inserted = 1 /\ ws[2].stats.duplicated = 1
    /\ InitialNames = {}

\* the sheet session s is in lacks a required column
LacksColumn(s) == \E c \in EXPECTED_COLUMNS : c \notin ws[s].columns

\* staging entries written for the current sheet of session s
SheetStaged(s) ==
    {r \in data_imported : r.id >= ws[s].from_import /\ r.sheet = ws[s].sheet
                           /\ r.user = ws[s].user}
SheetErrors(s) ==
    {e \in data_errors : e.id >= ws[s].from_error /\ e.sheet = ws[s].sheet
                         /\ e.user = ws[s].user}

\* C6: a sheet that lacks a required column yields no staged row and exactly
\* one staging error, with row number 0, and none of its rows is processed.
C6_MissingColumnsRejectSheet ==
    (ws[1].kind = "import" /\ ws[1].nsheets >= 1 /\ LacksColumn(1)) =>
        /\ ws[1].pc = "sheet"
        /\ SheetStaged(1) = {}
        /\ next_id.imported = ws[1].from_import
        /\ Cardinality(SheetErrors(1)) = 1
        /\ next_id.error = ws[1].from_error + 1
        /\ \A e \in SheetErrors(1) : e.row_num = 0

\* the second sheet of a workbook, one column short, has been rejected
C6_Witness ==
    /\ ws[1].kind = "import" /\ ws[1].nsheets = 2 /\ ws[1].pc = "sheet"
    /\ ws[1].columns = EXPECTED_COLUMNS \ {"price"}
    /\ Cardinality(SheetErrors(1)) = 1
    /\ ws[1].results.invalid_sheets = <<ws[1].sheet>>

\* a row the validator must reject
BadRow(row) ==
    \/ Strip(CellStr(row.name)) = << >>
    \/ (IntOk(row.duration_minutes) /\ IntVal(row.duration_minutes) <= 0)
    \/ (FloatOk(row.price) /\ FloatVal(row.price) < 0)

\* C7: a row with duration <= 0, price < 0 or a blank name yields no staged
\* row and exactly one staging error with that row's number (first row = 2).
C7_BadRowYieldsOneError ==
    [][(ws[1].pc = "row" /\ next_id' # next_id /\ BadRow(ws'[1].row)) =>
          /\ data_imported' = data_imported
          /\ \E e \in data_errors' \ data_errors :
               /\ data_errors' = data_errors \cup {e}
               /\ e.row_num = ws[1].idx + 2
               /\ e.sheet = ws[1].sheet
               /\ e.user = ws[1].user]_vars

\* the second row of a sheet, duration "-5", has been rejected as row 3
C7_Witness ==
    /\ ws[1].pc = "check" /\ ws[1].idx = 1
    /\ ws[1].row.duration_minutes = Txt(<<"-", "5">>)
    /\ \E e \in SheetErrors(1) : e.row_num = 3 /\ e.id = next_id.error - 1
    /\ SheetStaged(1) = {}

\* session s has left a sheet that had all columns and was not aborted
SheetDone(s) ==
    /\ ws[s].kind = "import" /\ ws[s].pc = "sheet" /\ ws[s].nsheets >= 1
    /\ ~LacksColumn(s)
    /\ \A i \in 1..Len(ws[s].results.invalid_sheets) :
         ws[s].results.invalid_sheets[i] # ws[s].sheet

\* C8: a sheet with all columns and n rows, processed to its end, yields n
\* outcomes: staged rows plus row-level errors of the sheet number n.
C8_EveryRowOneOutcome ==
    SheetDone(1) =>
        Cardinality(SheetStaged(1)) + Cardinality({e \in SheetErrors(1) : e.row_num >= 2})
            = ws[1].total_rows

\* a sheet of two valid rows has been staged whole
C8_Witness ==
    /\ SheetDone(1) /\ ws[1].total_rows = 2
    /\ Cardinality(SheetStaged(1)) = 2
    /\ ws[1].results.valid_sheets = <<ws[1].sheet>>

\* C9: from the start of an import session on, every staging entry of the
\* principal was written after the session's start.
C9_StartClearsStaging ==
    (ws[1].kind = "import" /\ ws[1].user # 0) =>
        /\ \A r \in StagedOf(ws[1].user) : r.id >= ws[1].mark_import
        /\ \A e \in ErrorsOf(ws[1].user) : e.id >= ws[1].mark_error

\* the session ended with rows of its own staged; the other principal's
\* earlier entries are still there
C9_Witness ==
    /\ ws[1].kind = "import" /\ ws[1].pc = "done" /\ ws[1].user = 1
    /\ StagedOf(1) # {} /\ ErrorsOf(1) # {}
    /\ \E r \in StagedOf(2) : r.id < ws[1].mark_import

\* the import session s ended on the failure message of a parse failure
ParseFailed(s) ==
    /\ ws[s].kind = "import" /\ ws[s].pc = "done" /\ ws[s].user # 0
    /\ sent[s][Len(sent[s])] = Envelope(FALSE, 500)

\* C10: after a parse failure the session has ended on a failure message and
\* the principal has no staging entry written by that session.
C10_ParseFailureLeavesNothing ==
    ParseFailed(1) =>
        /\ ~ws[1].open
        /\ \A r \in StagedOf(ws[1].user) : r.id < ws[1].mark_import
        /\ \A e \in ErrorsOf(ws[1].user) : e.id < ws[1].mark_error

\* the step of session s aborts its current sheet: one sheet-level error, no
\* staged row touched, the sheet listed as invalid, the row loop left
AbortsSheet(s) ==
    /\ ws'[s].pc = "sheet"
    /\ data_imported' = data_imported
    /\ \E e \in data_errors' \ data_errors :
         /\ data_errors' = data_errors \cup {e}
         /\ e.row_num = 0 /\ e.sheet = ws[s].sheet /\ e.user = ws[s].user
    /\ \E i \in 1..Len(ws'[s].results.invalid_sheets) :
         ws'[s].results.invalid_sheets[i] = ws[s].sheet

\* C11: once the time budget is exceeded, the session finishes at most the
\* row in hand and then aborts the sheet: one sheet-level error with row
\* number 0, no further row processed, the staged rows kept.
C11_BudgetAbortsSheet ==
    [][(ws[1].late /\ ws[1].pc \in {"row", "check"} /\ ws'[1] # ws[1]) =>
          \/ ws[1].pc = "row" /\ ws'[1].pc = "check"
          \/ AbortsSheet(1)]_vars

\* C12: every processed row of a sheet with all columns, whatever its
\* outcome, hands one progress event to the channel, with the value
\* rows processed / rows of the sheet x 100.
C12_ProgressAfterEachRow ==
    [][(ws[1].pc = "row" /\ next_id' # next_id) =>
          tasks'[1] = Append(tasks[1],
                             [Msg EXCEPT !.event = "progress", !.filename = ws[1].f,
                                         !.progress = Percent(ws[1].idx + 1, ws[1].total_rows)])]_vars

\* C13: the total row count reported for a file is the sum of the row
\* counts of the sheets read from it, accepted, rejected or aborted.
C13_TotalRowsCountsEverySheet ==
    (ws[1].kind = "import" /\ ws[1].pc = "sheet") =>
        ws[1].results.total_rows = ws[1].file_rows

\* the step answers a request to endpoint op made with a good token
Answers(op) == reply'.seq = reply.seq + 1 /\ reply'.op = op /\ reply'.user # 0

\* C14: a cancel returns success with the counts of the principal's staged
\* rows and errors and leaves the principal with none; a cancel right after
\* a cancel, or with nothing staged, returns success with 0 and 0.
C14_CancelIdempotent ==
    [][Answers("cancel") =>
        LET u == reply'.user
            rows == {r \in data_imported : r.user = u}
            errors == {e \in data_errors : e.user = u}
        IN  /\ reply'.success
            /\ reply'.deleted_rows = Cardinality(rows)
            /\ reply'.deleted_errors = Cardinality(errors)
            /\ \A r \in data_imported' : r.user # u
            /\ \A e \in data_errors' : e.user # u
            /\ ((reply.op = "cancel" /\ reply.user = u) \/ (rows = {} /\ errors = {}))
               => (reply'.deleted_rows = 0 /\ reply'.deleted_errors = 0)]_vars

\* principal 1 cancelled two staged rows and two errors; principal 2's
\* entries are still there
C14_Witness ==
    /\ reply.op = "cancel" /\ reply.user = 1 /\ reply.success
    /\ reply.deleted_rows = 2 /\ reply.deleted_errors = 2
    /\ StagedOf(1) = {} /\ ErrorsOf(1) = {} /\ ErrorsOf(2) # {}

\* a request body with a field that fails its rule
BadBody(b) ==
    \/ "name" \in DOMAIN b /\ Strip(CellStr(b.name)) = << >>
    \/ "duration_minutes" \in DOMAIN b
         /\ (~IntOk(b.duration_minutes) \/ IntVal(b.duration_minutes) <= 0)
    \/ "price" \in DOMAIN b /\ (~FloatOk(b.price) \/ FloatVal(b.price) < 0)

\* C15: an update with a field that fails its rule is rejected and leaves
\* every staged row as it was, the valid fields of the request included.
C15_InvalidUpdateChangesNothing ==
    [][(Answers("update") /\ BadBody(reply'.req_body)) =>
          (~reply'.success /\ data_imported' = data_imported)]_vars

\* a new name next to a negative price, for a row of the caller: rejected,
\* the row keeps its name
C15_Witness ==
    /\ reply.op = "update" /\ ~reply.success
    /\ reply.req_body = [name |-> Txt(<<"b">>), price |-> Num(-1)]
    /\ reply.message = "El precio no puede ser negativo"
    /\ \E r \in StagedOf(reply.user) : r.id = reply.req_id /\ r.name = <<"a">>

\* C16: an update with a key outside the five staged-row fields is rejected
\* and changes no field of any row, also next to valid allowed fields.
C16_UnknownKeyRejected ==
    [][(Answers("update")
        /\ \E k \in DOMAIN reply'.req_body :
             k \notin {"name", "description", "duration_minutes", "price", "state"}) =>
          (/\ ~reply'.success
           /\ reply'.message = "Campos no permitidos"
           /\ data_imported' = data_imported)]_vars

\* a valid price next to the key user_id, for a row of the caller: rejected,
\* the row keeps its price
C16_Witness ==
    /\ reply.op = "update" /\ ~reply.success
    /\ reply.req_body = [price |-> Num(7), user_id |-> Num(2)]
    /\ \E r \in StagedOf(reply.user) : r.id = reply.req_id /\ r.price = 0 /\ r.user = reply.user

\* the request passes the checks made before the store is read
GoodBody(b) ==
    /\ DOMAIN b # {}
    /\ DOMAIN b \subseteq {"name", "description", "duration_minutes", "price", "state"}
    /\ ~BadBody(b)

\* the staged row the request names is missing or is another principal's
NotOwned == \A r \in data_imported : ~(r.id = reply'.req_id /\ r.user = reply'.user)

\* no staged row of another principal is changed by the step
OthersUntouched ==
    {r \in data_imported : r.user # reply'.user} = {r \in data_imported' : r.user # reply'.user}

\* C17 as stated: an update of an id that does not exist or is another
\* principal's fails with the not-found/unauthorized result and changes no
\* row, and no update changes a row of another principal.
C17_NotOwnedIsNotFound ==
    [][Answers("update") =>
          /\ OthersUntouched
          /\ NotOwned => /\ ~reply'.success
                         /\ reply'.message = "Registro no encontrado o no autorizado"
                         /\ data_imported' = data_imported]_vars

\* C17 amended: such an update fails and changes no row; its result is the
\* not-found/unauthorized one when the body passes the checks of the keys
\* and fields, which come first; no update changes another principal's row.
C17_NotOwnedChangesNothing ==
    [][Answers("update") =>
          /\ OthersUntouched
          /\ NotOwned => /\ ~reply'.success
                         /\ data_imported' = data_imported
                         /\ GoodBody(reply'.req_body) =>
                              reply'.message = "Registro no encontrado o no autorizado"]_vars

\* a valid update aimed at a row of the other principal was answered with
\* not found, the row is as it was
C17_Witness ==
    /\ reply.op = "update" /\ ~reply.success
    /\ reply.message = "Registro no encontrado o no autorizado"
    /\ reply.req_body = [name |-> Txt(<<" ", "b">>), price |-> Txt(<<"7">>)]
    /\ \E r \in data_imported :
         r.id = reply.req_id /\ r.user # reply.user /\ r.name = <<"a">> /\ r.price = 0

\* C18: the listing returns every sheet with a staged row or an error of
\* the principal with its stored counts, and a summary with the number of
\* sheets returned, the total rows and errors, and the invalid-sheet flag.
C18_ListingMatchesStore ==
    (reply.op = "list" /\ reply.success) =>
        LET u == reply.user
            names == {r.sheet : r \in StagedOf(u)} \cup {e.sheet : e \in ErrorsOf(u)}
            rows(sh) == {r \in StagedOf(u) : r.sheet = sh}
            errors(sh) == {e \in ErrorsOf(u) : e.sheet = sh}
        IN  /\ {x.sheet : x \in reply.sheets} = names
            /\ Cardinality(reply.sheets) = Cardinality(names)
            /\ \A x \in reply.sheets : /\ x.total_rows = Cardinality(rows(x.sheet))
                                       /\ x.error_count = Cardinality(errors(x.sheet))
            /\ reply.total_sheets = Cardinality(names)
            /\ reply.total_rows = Cardinality(StagedOf(u))
            /\ reply.total_errors = Cardinality(ErrorsOf(u))
            /\ reply.has_invalid_sheets =
                 (\E sh \in names : errors(sh) # {} /\ rows(sh) = {})

\* C19: a streaming session that has ended sent exactly one message with a
\* success flag, and sent it last, before the close.
C19_OneTerminalMessage ==
    (ws[1].kind = "import" /\ ws[1].pc = "done") =>
        /\ ~ws[1].open
        /\ sent[1] # << >>
        /\ sent[1][Len(sent[1])].event = "envelope"
        /\ \A i \in 1..(Len(sent[1]) - 1) : sent[1][i].event # "envelope"

\* the step of session s rejects the session's first message
Rejects(s) ==
    /\ ws[s].pc = "idle" /\ ws'[s].pc = "done"
    /\ ~sent'[s][Len(sent'[s])].success

\* C20: a session rejected at its first message sends one error message,
\* closes and leaves the staging tables and the catalog as they were; a
\* session that goes on has a principal and 1 to 5 files, or a selection.
C20_RejectedSessionDoesNothing ==
    /\ [][\A s \in Sessions : Rejects(s) =>
            /\ sent'[s] = <<Envelope(FALSE, 401)>> \/ sent'[s] = <<Envelope(FALSE, 400)>>
            /\ ~ws'[s].open
            /\ data_imported' = data_imported
            /\ data_errors' = data_errors
            /\ service' = service]_vars
    /\ [](\A s \in Sessions :
            /\ (ws[s].kind = "import" /\ ws[s].pc # "done") =>
                  (ws[s].user \in Principals /\ ws[s].nfiles \in 1..5)
            /\ (ws[s].kind = "confirm" /\ ws[s].pc # "done") =>
                  (ws[s].user \in Principals /\ ws[s].selected # {}))

\* an import session and a confirmation session were both rejected with one
\* message each, with staging entries of both principals in the store
C20_Witness ==
    /\ ws[1].kind = "import" /\ ws[1].pc = "done" /\ sent[1] = <<Envelope(FALSE, 400)>>
    /\ ws[2].kind = "confirm" /\ ws[2].pc = "done" /\ sent[2] = <<Envelope(FALSE, 401)>>
    /\ ~ws[1].open /\ ~ws[2].open
    /\ data_imported # {} /\ ErrorsOf(1) # {} /\ ErrorsOf(2) # {}

\* C21: a confirmation run that fetched N >= 1 records sends
\* start_confirmation with total N, then the progress events of records
\* 1..N in fetch order, each with a status of inserted, duplicated or failed,
\* then completed with the stats, then the terminal success message.
C21_ConfirmEventOrder ==
    (ws[1].kind = "confirm" /\ ws[1].fetched >= 1) =>
        LET n == ws[1].fetched
            q == sent[1]
        IN  /\ Len(q) >= 1
            /\ q[1].event = "start_confirmation" /\ q[1].total = n
            /\ \A k \in 2..Len(q) :
                 IF k <= n + 1
                 THEN /\ q[k].event = "progress"
                      /\ q[k].current = k - 1 /\ q[k].total = n
                      /\ q[k].status \in {"inserted", "duplicated", "failed"}
                      /\ q[k].name = ws[1].records[k - 1].name
                 ELSE IF k = n + 2
                 THEN q[k].event = "completed" /\ q[k].stats = ws[1].stats
                 ELSE /\ k = n + 3
                      /\ q[k].event = "envelope" /\ q[k].success /\ q[k].stats = ws[1].stats
            /\ ws[1].pc = "loop" => Len(q) = 1 + ws[1].idx
            /\ ws[1].pc = "completed" => Len(q) = n + 2
            /\ ws[1].pc = "done" => Len(q) = n + 3

\* a run of three records ended: one inserted, one duplicated, one failed
C21_Witness ==
    /\ ws[1].kind = "confirm" /\ ws[1].pc = "done" /\ ws[1].fetched = 3
    /\ Len(sent[1]) = 6
    /\ {sent[1][k].status : k \in 2..4} = {"inserted", "duplicated", "failed"}
    /\ sent[1][5].event = "completed" /\ sent[1][6].success

\* C22: a confirmation for which the principal has no staged row in the
\* requested sheets returns success with all counts 0 and the
\* nothing-to-confirm message as its only message, and leaves the catalog
\* and the staging tables as they were.
C22_NothingToConfirmIsNoOp ==
    [][(/\ ws[1].pc = "idle" /\ ws'[1].kind = "confirm" /\ ws'[1].user # 0
        /\ {r \in data_imported : r.user = ws'[1].user /\ r.sheet \in ws'[1].selected} = {})
       => /\ ws'[1].pc = "done"
          /\ Len(sent'[1]) = 1
          /\ sent'[1][1].event = "envelope" /\ sent'[1][1].success
          /\ sent'[1][1].status = "nothing to confirm"
          /\ sent'[1][1].stats.inserted = 0 /\ sent'[1][1].stats.duplicated = 0
          /\ sent'[1][1].stats.failed = 0 /\ sent'[1][1].stats.total_processed = 0
          /\ service' = service
          /\ data_imported' = data_imported
          /\ data_errors' = data_errors]_vars

\* the principal asked for a sheet in which it has no row, while it has
\* rows in the other sheet and an error: all of them are still there
C22_Witness ==
    /\ ws[1].kind = "confirm" /\ ws[1].pc = "done" /\ ws[1].user # 0
    /\ ws[1].fetched = 0
    /\ Len(sent[1]) = 1 /\ sent[1][1].status = "nothing to confirm"
    /\ \E r \in StagedOf(ws[1].user) : r.sheet \notin ws[1].selected
    /\ ErrorsOf(ws[1].user) # {}

\* C23: every staged row has duration > 0, price >= 0, a name that is not
\* empty after trimming, and one owner, whatever the import sessions and
\* updates that produced it.
C23_StagedRowsValid ==
    \A r \in data_imported :
        /\ r.duration_minutes > 0
        /\ r.price >= 0
        /\ Strip(r.name) # << >>
        /\ r.user \in Principals
        /\ \A o \in data_imported : o.id = r.id => o = r

\* the import session has ended with a row staged, and a staged row carries
\* the name and the price an update gave it
C23_Witness ==
    /\ ws[1].kind = "import" /\ ws[1].pc = "done"
    /\ \E r \in data_imported : r.id >= ws[1].mark_import /\ r.duration_minutes = 30
    /\ \E r \in data_imported : r.name = <<"b">> /\ r.price = 7
    /\ reply.op = "update" /\ reply.success

\* the step is one of an operation run by principal u: a request answered
\* for u, or a move of a streaming session of u
ActsFor(u) ==
    \/ reply' # reply /\ reply'.user = u
    \/ \E s \in Sessions : ws'[s] # ws[s] /\ ws'[s].user = u

\* C24: a step that creates, changes or deletes a staged row or a staging
\* error owned by principal b is a step of an operation run by b, under any
\* interleaving of import session, confirmation, listing, update and cancel.
C24_StagingIsolated ==
    [][\A b \in Principals :
          (\/ {r \in data_imported : r.user = b} # {r \in data_imported' : r.user = b}
           \/ {e \in data_errors : e.user = b} # {e \in data_errors' : e.user = b})
          => ActsFor(b)]_vars

\* principal 1 has imported, cancelled staged rows and confirmed; the row and
\* the error principal 2 had at the start are still there
C24_Witness ==
    /\ ws[1].kind = "import" /\ ws[1].pc = "done" /\ ws[1].user = 1
    /\ ws[2].kind = "confirm" /\ ws[2].pc = "done" /\ ws[2].user = 1
    /\ reply.op = "cancel" /\ reply.user = 1 /\ reply.deleted_rows >= 1
    /\ \E r \in StagedOf(2) : r.id = 1
    /\ \E e \in ErrorsOf(2) : e.id = 2

\* the step of session s handles the row in hand
HandlesRow(s) ==
    /\ ws[s].pc = "row"
    /\ ws'[s].pc # "row" \/ ws'[s].idx # ws[s].idx

\* C25: the row in hand is handled without ending the sheet, also when the
\* store rejects the insert of the staged row or of the row's error: the
\* session stays in the row loop of the sheet (or has reached its end), the
\* sheet is not aborted, and the rows staged before are kept.
C25_RowFailureKeepsSheetGoing ==
    [][HandlesRow(1) =>
          /\ data_imported \subseteq data_imported'
          /\ ws'[1].pc \in {"check", NextRowPc(ws[1])}
          /\ \A i \in 1..Len(ws'[1].results.invalid_sheets) :
               ws'[1].results.invalid_sheets[i] # ws[1].sheet]_vars

\* C26: the events of a file are delivered in the order start_file, its
\* progress events in row order, preview_ready, and the files in their
\* order; the progress event of a row is delivered before the next row is
\* handled, none is outstanding when preview_ready or the terminal message
\* is sent, and the terminal message is the last message.
C26_ImportEventOrder ==
    ws[1].kind = "import" =>
        LET q == sent[1] IN
        /\ \A k \in 1..Len(q) :
             q[k].event = "progress" =>
                 /\ \E j \in 1..(k - 1) :
                      q[j].event = "start_file" /\ q[j].filename = q[k].filename
                 /\ \A j \in 1..(k - 1) :
                      ~(q[j].event = "preview_ready" /\ q[j].filename >= q[k].filename)
                 /\ \A j \in 1..(k - 1) :
                      ~(q[j].event = "start_file" /\ q[j].filename > q[k].filename)
        /\ \A k \in 1..Len(q) :
             q[k].event = "preview_ready" =>
                 \E j \in 1..(k - 1) :
                     q[j].event = "start_file" /\ q[j].filename = q[k].filename
        /\ \A j, k \in 1..Len(q) :
             (j < k /\ q[j].event = q[k].event /\ q[j].event \in {"start_file", "preview_ready"})
                 => q[j].filename < q[k].filename
        /\ Len(tasks[1]) <= 1
        /\ tasks[1] # << >> => (ws[1].pc = "check" /\ tasks[1][1] = Progress(1, ws[1]))
        /\ (ws[1].pc = "check" /\ tasks[1] = << >>) => q[Len(q)] = Progress(1, ws[1])
        /\ ws[1].pc = "done" =>
             /\ q[Len(q)].event = "envelope"
             /\ \A k \in 1..(Len(q) - 1) : ~(q[k].event = "envelope" /\ q[k].success)

\* a workbook of one sheet with two rows was imported: start_file, the
\* progress events 50 and 100, preview_ready, the terminal message
C26_Witness ==
    /\ ws[1].kind = "import" /\ ws[1].pc = "done"
    /\ Len(sent[1]) = 5
    /\ sent[1][1].event = "start_file"
    /\ sent[1][2].event = "progress" /\ sent[1][2].progress = 5000
    /\ sent[1][3].event = "progress" /\ sent[1][3].progress = 10000
    /\ sent[1][4].event = "preview_ready"
    /\ sent[1][5].event = "envelope" /\ sent[1][5].success

C28_SheetListsDisjoint ==
    ws[1].kind = "import" =>
        LET valid == ws[1].results.valid_sheets
            invalid == ws[1].results.invalid_sheets
        IN  /\ \A a \in 1..Len(valid), b \in 1..Len(invalid) : valid[a] # invalid[b]
            /\ \A a, b \in 1..Len(valid) : valid[a] = valid[b] => a = b
            /\ \A a, b \in 1..Len(invalid) : invalid[a] = invalid[b] => a = b
            /\ Len(valid) + Len(invalid) = ws[1].nsheets

\* C29: a confirmation run commits the records as it fetched them at its
\* start, whatever the principal has staged or edited since, and its final
\* clear deletes every staged row of the principal, those staged or edited
\* during the run included.
C29_ConfirmUsesSnapshot ==
    [][/\ (ws[2].kind = "confirm" /\ ws[2].pc = "loop" /\ service' # service) =>
             LET rec == ws[2].records[ws[2].idx + 1] IN
             \E sv \in service' \ service :
                 /\ service' = service \cup {sv}
                 /\ sv.name = rec.name /\ sv.description = rec.description
                 /\ sv.duration_minutes = rec.duration_minutes
                 /\ sv.price = rec.price /\ sv.state = rec.state
       /\ (ws[2].pc = "loop" /\ ws'[2].pc = "completed") =>
             {r \in data_imported' : r.user = ws[2].user} = {}]_vars

\* the run of principal 1 fetched row 1 named "a"; the principal then gave
\* the row the name "b" and a price of 7, and an import session of the
\* principal staged a row: the catalog got "a" at price 0 and no "b", and
\* the principal has no staged row left
C29_Witness ==
    /\ ws[2].kind = "confirm" /\ ws[2].pc = "completed" /\ ws[2].user = 1
    /\ ws[2].fetched = 1 /\ ws[2].records[1].name = <<"a">>
    /\ reply.op = "update" /\ reply.success /\ reply.user = 1
    /\ reply.req_id = ws[2].records[1].id
    /\ \E sv \in service : sv.name = <<"a">> /\ sv.price = 0
                           /\ sv.duration_minutes = ws[2].records[1].duration_minutes
    /\ \A sv \in service : sv.name # <<"b">>
    /\ ws[1].kind = "import" /\ ws[1].user = 1
    /\ ws[1].mark_import > ws[2].records[1].id
    /\ next_id.imported > ws[1].mark_import
    /\ StagedOf(1) = {}

\* C30: with the budget exceeded, a row with a blank name is handled
\* without the check, a row with a name is handled and then the check
\* aborts the sheet, so at most one row is staged in the sheet; the abort
\* writes the sheet's own error and the session goes on with the remaining
\* sheets and files up to its terminal success message.
C30_TimeoutEndsOnlySheet ==
    [][(ws[1].late /\ ws'[1] # ws[1]) =>
          /\ (ws[1].pc = "row" /\ Strip(CellStr(ws'[1].row.name)) = << >>) =>
                /\ ws'[1].pc = NextRowPc(ws[1]) /\ ws'[1].idx = ws[1].idx + 1
                /\ ws'[1].results = ws[1].results
                /\ data_imported' = data_imported
          /\ (ws[1].pc = "row" /\ Strip(CellStr(ws'[1].row.name)) # << >>) =>
                ws'[1].pc = "check"
          /\ ws[1].pc = "check" => AbortsSheet(1)
          /\ ws[1].pc = "sheet" => ws'[1].pc \in {"sheet", "row", "file"}
          /\ (ws[1].pc = "file" /\ ws'[1].pc = "done") =>
                (sent'[1][Len(sent'[1])].success /\ ws[1].f > ws[1].nfiles)]_vars

\* the budget ran out in the first sheet; the second sheet was entered, one
\* row of it was staged, and it was aborted with an error of its own
C30_Witness ==
    /\ ws[1].kind = "import" /\ ws[1].late /\ ws[1].pc = "sheet" /\ ws[1].nsheets = 2
    /\ Len(ws[1].results.valid_sheets) = 2 /\ Len(ws[1].results.invalid_sheets) = 2
    /\ Cardinality(SheetStaged(1)) = 1
    /\ Cardinality(SheetErrors(1)) = 1
    /\ Cardinality({e \in ErrorsOf(ws[1].user) : e.row_num = 0 /\ e.id >= ws[1].mark_error}) = 2

====
